---------------------------- MODULE Spec2Model ----------------------------
(***************************************************************************)
(* Model of the artifact assembly steps of build_kernel.py:                *)
(*   read_modules_file, mk_vendor_rd_dlkm, build_dlkm_image,               *)
(*   build_boot_image, build_vendorboot_image, sign_partition_image,       *)
(*   run_cmd.                                                              *)
(* Text is modelled as a sequence of characters (one-character strings; a  *)
(* few fixed literals such as "/lib/modules/" are kept as one element).    *)
(***************************************************************************)
EXTENDS Integers, Sequences, FiniteSets, TLC

(***************************************************************************)
(* Bounds of the model.                                                    *)
(***************************************************************************)
\* lines in the early list plus the normal list (and in a single list file)
MaxLines == 3
\* kernel-release directories the installed tree may hold
MaxKernelDirs == 2

(***************************************************************************)
(* Text helpers: what the Python string methods used by the code do.       *)
(***************************************************************************)
WS == {" ", "\t", "\n", "\r"}

RECURSIVE LStrip(_)
LStrip(s) ==
    IF s = <<>> THEN <<>>
    ELSE IF Head(s) \in WS THEN LStrip(Tail(s)) ELSE s

RECURSIVE RStrip(_)
RStrip(s) ==
    IF s = <<>> THEN <<>>
    ELSE IF s[Len(s)] \in WS THEN RStrip(SubSeq(s, 1, Len(s) - 1)) ELSE s

\* str.strip()
Strip(s) == RStrip(LStrip(s))

\* str.startswith(p)
StartsWith(s, p) == Len(s) >= Len(p) /\ SubSeq(s, 1, Len(p)) = p

\* str.endswith(p)
EndsWith(s, p) == Len(s) >= Len(p) /\ SubSeq(s, Len(s) - Len(p) + 1, Len(s)) = p

\* the module-file suffix tested at lines 489 and 686
KoSuffix == <<".", "k", "o">>

(***************************************************************************)
(* Inputs: module names, list-file lines, the installed-module tree.       *)
(***************************************************************************)
a_ko == <<"a", ".", "k", "o">>
b_ko == <<"b", ".", "k", "o">>
fw   == <<"f", "w">>

\* basenames a file under the installed-module tree may have
Names == {a_ko, b_ko, fw}

\* raw lines of a module list file, as the file iterator yields them
RawLines ==
    { a_ko \o <<"\n">>,
      <<" ">> \o b_ko \o <<" ", "\n">>,
      fw \o <<"\n">>,
      <<"#">> \o a_ko \o <<"\n">>,
      <<"\n">> }

\* a path with no file at it, and a file holding the given lines
NoFile == [is_file |-> FALSE, lines |-> <<>>]
File(lines) == [is_file |-> TRUE, lines |-> lines]

\* a path with no directory at it, and a directory holding the given files
NoDir == [is_dir |-> FALSE, files |-> {}]
Dir(files) == [is_dir |-> TRUE, files |-> files]

RECURSIVE SeqsUpTo(_, _)
SeqsUpTo(S, n) ==
    IF n = 0 THEN {<<>>}
    ELSE LET shorter == SeqsUpTo(S, n - 1)
         IN  shorter \cup {Append(s, x) : s \in shorter, x \in S}

\* what a list-file path may hold
Files == {File(l) : l \in SeqsUpTo(RawLines, MaxLines)} \cup {NoFile}

\* the (early list, normal list) pairs given to the ramdisk build
FilePairs ==
    {p \in Files \X Files : Len(p[1].lines) + Len(p[2].lines) <= MaxLines}

\* file names used inside the staging tree
ModulesDep == <<"modules.dep">>

\* modules.builtin* files copied at lines 475-482 and 672-679
BuiltinFiles ==
    { <<"modules.builtin">>, <<"modules.builtin.modinfo">>,
      <<"modules.builtin.alias.bin">>, <<"modules.builtin.bin">> }

(***************************************************************************)
(* State.                                                                  *)
(***************************************************************************)
VARIABLES
    fn,              \* the step being run: "rd", "dlkm", "vboot", "boot", "sign"
    pc,              \* position inside the step; "done" or "aborted" at its end
    early_file,      \* what is at module_early_list_file
    list_file,       \* what is at module_list_file / modules_list_file
    tree,            \* basenames of the files under MODULES_STAGING_DIR/lib/modules
    kernel_dirs,     \* len(kernel_dirs): "*-*" directories the glob returned
    builtin,         \* modules.builtin* files found in the kernel-release directory
    mount_prefix,    \* the mount_prefix argument
    image_name,      \* the image_name argument of build_dlkm_image
    sign_modules,    \* the sign_modules argument of build_dlkm_image
    bzl,             \* modules.bzl: whether it exists, the .ko names it lists
    signed,          \* staged modules that sign-file has signed
    signing_files,   \* whether sign-file and both key files were found to be files
    inputs,          \* the input files of a boot-image step that exist
    partition_name,  \* the partition_name argument of sign_partition_image
    image_exists,    \* image_path.exists()
    key_exists,      \* key_path.exists()
    avbtool_exists,  \* whether there is an avbtool binary at the avbtool path
    raw_size,        \* image_path.stat().st_size
    padded_size,     \* the local padded_size, once bound
    avb_cmd,         \* the avbtool command line run, and its exit status
    modules,         \* vendor_modules (ramdisk) / modules (dlkm): the manifest
    modules_copied,  \* the counter of the copy loop
    staging_dir,     \* whether the staging directory exists
    flat_dir,        \* staging/lib/modules/<kernel_version>
    mod_root,        \* files directly in staging/lib/modules
    dep_file,        \* modules.dep in the staging tree
    load_file,       \* modules.load in the staging tree
    order_file,      \* modules.order in the staging tree
    cpio,            \* whether output_cpio_path exists
    artifact,        \* whether the step's output file exists
    tool_runs,       \* external tools run so far, in order
    log,             \* messages logged so far, in order
    args,            \* main: the command-line flags
    calls,           \* main: the functions called so far, with how each ended
    dist,            \* main: the image files that exist in DIST_DIR
    image_index,     \* main: position of the signing loop in its images list
    signed_any,      \* main: the local signed_any
    exit_status      \* main: the status the process ended with, once it has

\* the state of main, which no build step touches
mainv == <<args, calls, dist, image_index, signed_any, exit_status>>
env   == <<fn, early_file, list_file, tree, mount_prefix, image_name,
           sign_modules, bzl, inputs, partition_name, image_exists,
           key_exists, avbtool_exists, raw_size, mainv>>
signer == <<padded_size, avb_cmd>>
stage == <<staging_dir, flat_dir, mod_root, dep_file, load_file, order_file>>
vars  == <<fn, pc, early_file, list_file, tree, kernel_dirs, builtin,
           mount_prefix, image_name, sign_modules, bzl, signed,
           signing_files, inputs,
           partition_name, image_exists, key_exists, avbtool_exists, raw_size,
           padded_size, avb_cmd, modules, modules_copied, staging_dir, flat_dir,
           mod_root, dep_file, load_file, order_file, cpio, artifact,
           tool_runs, log, args, calls, dist, image_index, signed_any,
           exit_status>>

(***************************************************************************)
(* run_cmd (lines 120-159): the value returned for a command that ended    *)
(* with exit status rc; "exit" is sys.exit(1).                             *)
(***************************************************************************)
\* mutant of run_cmd: a failed command is never fatal
run_cmd_never_fatal(rc, fatal_on_error) ==
    IF rc = 0 THEN "stdout" ELSE "none"

run_cmd(rc, fatal_on_error) ==
    IF rc = 0 THEN "stdout"
    ELSE IF fatal_on_error THEN "exit" ELSE "none"

\* exit statuses an external tool may end with
ExitCodes == {0, 1}

(***************************************************************************)
(* read_modules_file (lines 346-361).  exit is sys.exit(1).                *)
(***************************************************************************)
RECURSIVE ReadLoop(_, _)
ReadLoop(lines, acc) ==
    IF lines = <<>> THEN acc
    ELSE LET line == Strip(Head(lines))
         IN  IF line # <<>> /\ ~StartsWith(line, <<"#">>)
             THEN ReadLoop(Tail(lines), Append(acc, line))
             ELSE ReadLoop(Tail(lines), acc)

\* mutant of read_modules_file: the line.strip() of line 358 left out
read_modules_file_unstripped(file_path) ==
    IF ~file_path.is_file
    THEN [exit |-> TRUE, modules |-> <<>>]
    ELSE [exit |-> FALSE,
          modules |-> SelectSeq(file_path.lines,
                                LAMBDA l : l # <<>> /\ ~StartsWith(l, <<"#">>))]

read_modules_file(file_path) ==
    IF ~file_path.is_file
    THEN [exit |-> TRUE, modules |-> <<>>]
    ELSE [exit |-> FALSE, modules |-> ReadLoop(file_path.lines, <<>>)]

(***************************************************************************)
(* The dependency-file rewrite (lines 456-469, and the same text at        *)
(* 653-666).                                                               *)
(***************************************************************************)
LibModules == <<"/lib/modules/">>

\* str.split(":", 1)
SplitColon(s) ==
    LET at == {i \in 1..Len(s) : s[i] = ":"}
    IN  IF at = {} THEN <<s>>
        ELSE LET i == CHOOSE k \in at : \A j \in at : k <= j
             IN  <<SubSeq(s, 1, i - 1), SubSeq(s, i + 1, Len(s))>>

\* str.split(): the words between runs of whitespace
RECURSIVE SplitWs(_)
SplitWs(s) ==
    LET t == LStrip(s)
    IN  IF t = <<>> THEN <<>>
        ELSE LET ws  == {i \in 1..Len(t) : t[i] \in WS}
                 end == IF ws = {} THEN Len(t) + 1
                        ELSE CHOOSE k \in ws : \A j \in ws : k <= j
             IN  <<SubSeq(t, 1, end - 1)>> \o SplitWs(SubSeq(t, end, Len(t)))

\* sep.join(words)
RECURSIVE Join(_, _)
Join(sep, words) ==
    IF words = <<>> THEN <<>>
    ELSE IF Len(words) = 1 THEN words[1]
    ELSE words[1] \o sep \o Join(sep, Tail(words))

\* mutant of RewriteDepLine: the dependencies joined without the prefix
RewriteDepLineBareDeps(prefix, line) ==
    LET parts == SplitColon(Strip(line))
        main  == prefix \o LibModules \o Strip(parts[1])
        deps  == IF Len(parts) = 2 THEN Join(<<" ">>, SplitWs(parts[2])) ELSE <<>>
    IN  RStrip(main \o <<":", " ">> \o deps)

\* lines 461-467: one line of modules.dep rewritten
RewriteDepLine(prefix, line) ==
    LET parts == SplitColon(Strip(line))
        main  == prefix \o LibModules \o Strip(parts[1])
        deps  == IF Len(parts) = 2
                 THEN LET ds == SplitWs(parts[2])
                      IN  Join(<<" ">>,
                               [i \in 1..Len(ds) |-> prefix \o LibModules \o Strip(ds[i])])
                 ELSE <<>>
    IN  RStrip(main \o <<":", " ">> \o deps)

\* lines 458-469: the file written back, "\n".join(new_lines), as the lines it holds
RewriteDepFile(prefix, lines) ==
    [i \in 1..Len(lines) |->
        RewriteDepLine(prefix, lines[i])
            \o (IF i < Len(lines) THEN <<"\n">> ELSE <<>>)]

(***************************************************************************)
(* modules.load / modules.order (lines 485-490, and the same text at       *)
(* 682-687): the lines written for a manifest.                             *)
(***************************************************************************)
\* mutant of LoadLines: a name already written is not written again
LoadLinesUnique(names) ==
    LET RECURSIVE Go(_, _)
        Go(rest, seen) ==
            IF rest = <<>> THEN <<>>
            ELSE IF EndsWith(Head(rest), KoSuffix) /\ Head(rest) \notin seen
                 THEN <<Head(rest) \o <<"\n">>>> \o Go(Tail(rest), seen \cup {Head(rest)})
                 ELSE Go(Tail(rest), seen)
    IN  Go(names, {})

RECURSIVE LoadLines(_)
LoadLines(names) ==
    IF names = <<>> THEN <<>>
    ELSE IF EndsWith(Head(names), KoSuffix)
         THEN <<Head(names) \o <<"\n">>>> \o LoadLines(Tail(names))
         ELSE LoadLines(Tail(names))

(***************************************************************************)
(* depmod, an external tool: the modules.dep files it may write for the    *)
(* modules of a directory.  Each .ko file gets one line, "name:" followed  *)
(* by the modules it depends on; which ones is decided by the module       *)
(* binaries, so every choice among the other modules of the directory is   *)
(* allowed.                                                                *)
(***************************************************************************)
c_ko == <<"c", ".", "k", "o">>

\* the order in which sorted() and depmod list names
NameOrder == <<a_ko, b_ko, c_ko, fw>>

DepLine(name, deps) ==
    name \o <<":">>
         \o Join(<<>>, [i \in 1..Len(deps) |-> <<" ">> \o deps[i]])
         \o <<"\n">>

\* the sequences listing some elements of S, each once
RECURSIVE Arrangements(_)
Arrangements(S) ==
    {<<>>} \cup UNION {{<<x>> \o r : r \in Arrangements(S \ {x})} : x \in S}

DepmodOutputs(files) ==
    LET ko == {n \in files : EndsWith(n, KoSuffix)}
        RECURSIVE Lines(_)
        Lines(i) ==
            IF i > Len(NameOrder) THEN {<<>>}
            ELSE IF NameOrder[i] \in ko
                 THEN {<<DepLine(NameOrder[i], d)>> \o rest :
                          d \in Arrangements(ko \ {NameOrder[i]}),
                          rest \in Lines(i + 1)}
                 ELSE Lines(i + 1)
    IN  Lines(1)

(***************************************************************************)
(* Initial states: one build step about to run, nothing staged yet.        *)
(***************************************************************************)
\* installed-module trees
Trees == SUBSET Names

\* modules.builtin* files a kernel-release directory may hold
BuiltinSets == { {}, {<<"modules.builtin">>}, BuiltinFiles }

\* a local not yet bound, and one bound to v
Unbound == [bound |-> FALSE, value |-> 0]
Bound(v) == [bound |-> TRUE, value |-> v]

\* no avbtool command run yet
NoCmd == [footer |-> "", with_size |-> FALSE, partition_size |-> 0,
          returncode |-> 0]

\* the arguments and files of the steps that are not being run
NoBuildArgs ==
    /\ early_file = NoFile
    /\ list_file = NoFile
    /\ tree = {}
    /\ mount_prefix = <<>>
    /\ image_name = ""
    /\ sign_modules = FALSE
    /\ bzl = [is_file |-> FALSE, names |-> {}]

NoBootArgs == inputs = {}

NoSignArgs ==
    /\ partition_name = ""
    /\ image_exists = FALSE
    /\ key_exists = FALSE
    /\ avbtool_exists = FALSE
    /\ raw_size = 0

\* the flags of main (lines 1051-1102), here all off
NoArgs ==
    [clean |-> FALSE, create_dtbo_images |-> FALSE, create_boot_image |-> FALSE,
     build_vendor_ramdisk_dlkm |-> FALSE, build_vendor_boot_image |-> FALSE,
     build_dlkm_image |-> FALSE, sign_images |-> FALSE]

\* a build step run on its own: main has not run
NoMain ==
    /\ args = NoArgs
    /\ calls = <<>>
    /\ dist = {}
    /\ image_index = 0
    /\ signed_any = FALSE
    /\ exit_status = Unbound

\* nothing staged, no tool run, nothing logged
FreshStep ==
    /\ padded_size = Unbound
    /\ avb_cmd = NoCmd
    /\ kernel_dirs = 0
    /\ builtin = {}
    /\ modules = <<>>
    /\ modules_copied = 0
    /\ signed = {}
    /\ signing_files = FALSE
    /\ staging_dir = FALSE
    /\ flat_dir = NoDir
    /\ mod_root = {}
    /\ dep_file = NoFile
    /\ load_file = NoFile
    /\ order_file = NoFile
    /\ cpio = FALSE
    /\ tool_runs = <<>>
    /\ log = <<>>

Fresh ==
    /\ pc = "start"
    /\ FreshStep
    /\ NoMain

\* mk_vendor_rd_dlkm as main calls it (lines 1132-1136, 1151-1155)
InitRd ==
    /\ fn = "rd"
    /\ \E p \in FilePairs : early_file = p[1] /\ list_file = p[2]
    /\ tree \in Trees
    /\ mount_prefix = <<>>
    /\ image_name = "vendor_ramdisk_dlkm"
    /\ sign_modules = FALSE
    /\ bzl = [is_file |-> FALSE, names |-> {}]
    /\ artifact \in BOOLEAN
    /\ NoBootArgs /\ NoSignArgs
    /\ Fresh

Say(level, msg, arg) == Append(log, <<level, msg, arg>>)

\* shutil.rmtree(staging_dir): the staging tree and all it holds is gone
RmStaging ==
    /\ staging_dir' = FALSE
    /\ flat_dir' = NoDir
    /\ mod_root' = {}
    /\ dep_file' = NoFile
    /\ load_file' = NoFile
    /\ order_file' = NoFile

(***************************************************************************)
(* mk_vendor_rd_dlkm (lines 363-507)                                       *)
(***************************************************************************)
\* lines 374-386: both list files must exist; read them
RdReadLists ==
    /\ fn = "rd" /\ pc = "start"
    /\ IF ~(early_file.is_file /\ list_file.is_file)
       THEN /\ log' = Say("ERROR", "module list files are missing", <<>>)
            /\ pc' = "aborted"
            /\ UNCHANGED modules
       ELSE LET early_modules  == read_modules_file(early_file)
                normal_modules == read_modules_file(list_file)
            IN  IF early_modules.exit \/ normal_modules.exit
                THEN /\ log' = Say("WARNING", "Module list file not found", <<>>)
                     /\ pc' = "aborted"
                     /\ UNCHANGED modules
                ELSE \* line 408: vendor_modules = early_modules + normal_modules
                     /\ modules' = early_modules.modules \o normal_modules.modules
                     /\ pc' = "kernel"
                     /\ UNCHANGED log
    /\ UNCHANGED <<env, signer, signed, signing_files, kernel_dirs, builtin, stage, modules_copied, cpio,
                   artifact, tool_runs>>

\* lines 395-400: the kernel-release directories found by the glob
RdKernelVersion ==
    /\ fn = "rd" /\ pc = "kernel"
    /\ \E n \in 0..MaxKernelDirs :
         /\ kernel_dirs' = n
         /\ IF n = 0
            THEN /\ log' = Say("ERROR", "No kernel version found", <<>>)
                 /\ pc' = "aborted"
            ELSE /\ pc' = "staging"
                 /\ UNCHANGED log
    /\ UNCHANGED <<env, signer, signed, signing_files, builtin, stage, modules, modules_copied, cpio,
                   artifact, tool_runs>>

\* lines 402-412: the staging directory is made; an empty manifest exits
RdMkStaging ==
    /\ fn = "rd" /\ pc = "staging"
    /\ staging_dir' = TRUE
    /\ flat_dir' = Dir({})
    /\ modules_copied' = 0
    /\ IF modules = <<>>
       THEN /\ log' = Say("ERROR", "Module list is empty", <<>>)
            /\ pc' = "aborted"
       ELSE /\ pc' = "copy"
            /\ UNCHANGED log
    /\ UNCHANGED <<env, signer, signed, signing_files, kernel_dirs, builtin, mod_root, dep_file, load_file,
                   order_file, modules, cpio, artifact, tool_runs>>

\* lines 414-421: the copy loop, up to its end or its first sys.exit
RECURSIVE RdCopyLoop(_, _, _)
RdCopyLoop(names, files, copied) ==
    IF names = <<>> THEN [exit |-> FALSE, files |-> files, copied |-> copied,
                          name |-> <<>>]
    ELSE IF Head(names) \in tree
         THEN RdCopyLoop(Tail(names), files \cup {Head(names)}, copied + 1)
         ELSE [exit |-> TRUE, files |-> files, copied |-> copied,
               name |-> Head(names)]

\* lines 414-425
RdCopyModules ==
    /\ fn = "rd" /\ pc = "copy"
    /\ LET r == RdCopyLoop(modules, flat_dir.files, modules_copied)
       IN  /\ flat_dir' = Dir(r.files)
           /\ modules_copied' = r.copied
           /\ IF r.exit
              THEN /\ log' = Say("ERROR", "Module not found", r.name)
                   /\ pc' = "aborted"
              ELSE IF r.copied = 0
              THEN /\ log' = Say("ERROR", "No modules copied", <<>>)
                   /\ pc' = "aborted"
              ELSE /\ pc' = "tools"
                   /\ UNCHANGED log
    /\ UNCHANGED <<env, signer, signed, signing_files, kernel_dirs, builtin, staging_dir, mod_root, dep_file,
                   load_file, order_file, modules, cpio, artifact, tool_runs>>

\* the tools checked by the loop at lines 429-442, in its order
RdTools == <<"mkbootfs", "lz4", "depmod">>

\* the first tool of the list that is no file, or "" when all are files
FirstMissing(tools, have) ==
    LET gone == {i \in 1..Len(tools) : tools[i] \notin have}
    IN  IF gone = {} THEN ""
        ELSE tools[CHOOSE k \in gone : \A j \in gone : k <= j]

\* lines 427-446: a missing tool removes the staging directory and exits
RdCheckTools ==
    /\ fn = "rd" /\ pc = "tools"
    /\ \E have \in SUBSET {RdTools[i] : i \in 1..Len(RdTools)} :
         LET gone == FirstMissing(RdTools, have)
         IN  IF gone # ""
             THEN /\ log' = Say("ERROR", "tool not found", <<gone>>)
                  /\ RmStaging
                  /\ cpio' = FALSE
                  /\ pc' = "aborted"
             ELSE /\ pc' = "depmod"
                  /\ UNCHANGED <<log, stage, cpio>>
    /\ UNCHANGED <<env, signer, signed, signing_files, kernel_dirs, builtin, modules, modules_copied, artifact,
                   tool_runs>>

\* line 448: depmod is run; it may fail, and may end without a modules.dep
RdDepmod ==
    /\ fn = "rd" /\ pc = "depmod"
    /\ tool_runs' = Append(tool_runs, "depmod")
    /\ \E rc \in ExitCodes :
         IF run_cmd(rc, TRUE) = "exit"
         THEN /\ pc' = "aborted"
              /\ log' = Say("ERROR", "Command failed", <<"depmod">>)
              /\ UNCHANGED <<flat_dir, dep_file>>
         ELSE /\ pc' = "flatten"
              /\ UNCHANGED log
              /\ \/ UNCHANGED <<flat_dir, dep_file>>
                 \/ \E out \in DepmodOutputs(flat_dir.files) :
                      /\ flat_dir' = Dir(flat_dir.files \cup {ModulesDep})
                      /\ dep_file' = File(out)
    /\ UNCHANGED <<env, signer, signed, signing_files, kernel_dirs, builtin, staging_dir, mod_root, load_file,
                   order_file, modules, modules_copied, cpio, artifact>>

\* lines 450-454: everything moves up into lib/modules
RdFlatten ==
    /\ fn = "rd" /\ pc = "flatten"
    /\ mod_root' = mod_root \cup flat_dir.files
    /\ flat_dir' = NoDir
    /\ pc' = "rewrite"
    /\ UNCHANGED <<env, signer, signed, signing_files, kernel_dirs, builtin, staging_dir, dep_file, load_file,
                   order_file, modules, modules_copied, cpio, artifact,
                   tool_runs, log>>

\* lines 456-472: modules.dep is rewritten in place; without it the step exits
RdRewriteDep ==
    /\ fn = "rd" /\ pc = "rewrite"
    /\ IF ModulesDep \in mod_root
       THEN /\ dep_file' = File(RewriteDepFile(mount_prefix, dep_file.lines))
            /\ pc' = "metadata"
            /\ UNCHANGED log
       ELSE /\ log' = Say("ERROR", "modules.dep not found", <<>>)
            /\ pc' = "aborted"
            /\ UNCHANGED dep_file
    /\ UNCHANGED <<env, signer, signed, signing_files, kernel_dirs, builtin, staging_dir, flat_dir, mod_root,
                   load_file, order_file, modules, modules_copied, cpio,
                   artifact, tool_runs>>

\* lines 474-490: modules.builtin* copied where present, modules.load and
\* modules.order written
RdMetadata ==
    /\ fn = "rd" /\ pc = "metadata"
    /\ \E have \in BuiltinSets :
         /\ builtin' = have
         /\ mod_root' = mod_root \cup have \cup {<<"modules.load">>, <<"modules.order">>}
         /\ log' = IF have = BuiltinFiles THEN log
                   ELSE Say("WARNING", "modules.builtin files not found", <<>>)
    /\ load_file' = File(LoadLines(modules))
    /\ order_file' = File(LoadLines(modules))
    /\ pc' = "package"
    /\ UNCHANGED <<env, signer, signed, signing_files, kernel_dirs, staging_dir, flat_dir, dep_file, modules,
                   modules_copied, cpio, artifact, tool_runs>>

\* lines 492-494, and 501-507 when mkbootfs fails
RdMkbootfs ==
    /\ fn = "rd" /\ pc = "package"
    /\ tool_runs' = Append(tool_runs, "mkbootfs")
    /\ \E rc \in ExitCodes :
         IF rc # 0
         THEN /\ log' = Say("ERROR", "CPIO creation or compression", <<>>)
              /\ RmStaging
              /\ cpio' = FALSE
              /\ pc' = "aborted"
         ELSE /\ cpio' = TRUE
              /\ pc' = "compress"
              /\ UNCHANGED <<log, stage>>
    /\ UNCHANGED <<env, signer, signed, signing_files, kernel_dirs, builtin, modules, modules_copied, artifact>>

\* lines 496-507: lz4 writes the artifact; the finally block cleans up
RdCompress ==
    /\ fn = "rd" /\ pc = "compress"
    /\ tool_runs' = Append(tool_runs, "lz4")
    /\ \E rc \in ExitCodes :
         IF run_cmd(rc, TRUE) = "exit"
         THEN /\ log' = Say("ERROR", "Command failed", <<"lz4">>)
              /\ pc' = "aborted"
              /\ UNCHANGED artifact
         ELSE /\ artifact' = TRUE
              /\ pc' = "done"
              /\ UNCHANGED log
    /\ RmStaging
    /\ cpio' = FALSE
    /\ UNCHANGED <<env, signer, signed, signing_files, kernel_dirs, builtin, modules, modules_copied>>

mk_vendor_rd_dlkm ==
    \/ RdReadLists
    \/ RdKernelVersion
    \/ RdMkStaging
    \/ RdCopyModules
    \/ RdCheckTools
    \/ RdDepmod
    \/ RdFlatten
    \/ RdRewriteDep
    \/ RdMetadata
    \/ RdMkbootfs
    \/ RdCompress

(***************************************************************************)
(* build_dlkm_image (lines 542-709)                                        *)
(***************************************************************************)
\* image kinds the function may be called with; main passes the first two
ImageNames == {"system_dlkm", "vendor_dlkm", "odm_dlkm"}

\* .ko names modules.bzl may list
BzlFiles ==
    {[is_file |-> FALSE, names |-> {}]}
        \cup {[is_file |-> TRUE, names |-> n] : n \in SUBSET {a_ko, b_ko}}

InitDlkm ==
    /\ fn = "dlkm"
    /\ image_name \in ImageNames
    /\ sign_modules \in BOOLEAN
    /\ mount_prefix = <<"/", image_name>>
    /\ early_file = NoFile
    /\ IF image_name = "system_dlkm"
       THEN list_file = NoFile /\ bzl \in BzlFiles
       ELSE list_file \in Files /\ bzl = [is_file |-> FALSE, names |-> {}]
    /\ tree \in Trees
    /\ artifact \in BOOLEAN
    /\ NoBootArgs /\ NoSignArgs
    /\ Fresh

\* get_system_dlkm_list (lines 509-540): the sorted, duplicate-free .ko names
get_system_dlkm_list(f) ==
    LET RECURSIVE Sorted(_)
        Sorted(i) ==
            IF i > Len(NameOrder) THEN <<>>
            ELSE IF NameOrder[i] \in f.names
                 THEN <<NameOrder[i]>> \o Sorted(i + 1)
                 ELSE Sorted(i + 1)
    IN  IF ~f.is_file
        THEN [exit |-> TRUE, modules |-> <<>>]
        ELSE [exit |-> FALSE, modules |-> Sorted(1)]

\* lines 554-562: the manifest; a missing source or an empty manifest exits
DlReadModules ==
    /\ fn = "dlkm" /\ pc = "start"
    /\ LET r == IF image_name = "system_dlkm"
                THEN get_system_dlkm_list(bzl)
                ELSE read_modules_file(list_file)
       IN  IF r.exit
           THEN /\ log' = Say("ERROR", "module list not found", <<>>)
                /\ pc' = "aborted"
                /\ UNCHANGED modules
           ELSE /\ modules' = r.modules
                /\ IF r.modules = <<>>
                   THEN /\ log' = Say("ERROR", "No modules found", <<>>)
                        /\ pc' = "aborted"
                   ELSE /\ pc' = "kernel"
                        /\ UNCHANGED log
    /\ UNCHANGED <<env, signer, signed, signing_files, kernel_dirs, builtin, stage, modules_copied,
                   cpio, artifact, tool_runs>>

\* lines 576-581
DlKernelVersion ==
    /\ fn = "dlkm" /\ pc = "kernel"
    /\ \E n \in 0..MaxKernelDirs :
         /\ kernel_dirs' = n
         /\ IF n = 0
            THEN /\ log' = Say("ERROR", "No kernel version found", <<>>)
                 /\ pc' = "aborted"
            ELSE /\ pc' = "staging"
                 /\ UNCHANGED log
    /\ UNCHANGED <<env, signer, signed, signing_files, builtin, stage, modules, modules_copied, cpio,
                   artifact, tool_runs>>

\* lines 583-591: the staging directory is made, and from here on the
\* finally block at 708-709 removes it on every way out
DlMkStaging ==
    /\ fn = "dlkm" /\ pc = "staging"
    /\ modules_copied' = 0
    /\ IF modules = <<>>
       THEN /\ log' = Say("ERROR", "Module list is empty", <<>>)
            /\ pc' = "aborted"
            /\ RmStaging
       ELSE /\ pc' = "copy"
            /\ staging_dir' = TRUE
            /\ flat_dir' = Dir({})
            /\ UNCHANGED <<log, mod_root, dep_file, load_file, order_file>>
    /\ UNCHANGED <<env, signer, signed, signing_files, kernel_dirs, builtin, modules, cpio, artifact,
                   tool_runs>>

\* mutant of DlCopyLoop: the is_file test of lines 606-608 left out
RECURSIVE DlCopyLoopNoKeyCheck(_, _, _, _)
DlCopyLoopNoKeyCheck(i, keys, fail_at, st) ==
    IF i > Len(modules) THEN st
    ELSE LET name == modules[i]
         IN  IF name \in tree
             THEN LET copied == [st EXCEPT !.files = @ \cup {name}]
                  IN  IF sign_modules
                      THEN IF i = fail_at
                           THEN [copied EXCEPT !.exit = TRUE,
                                    !.runs = Append(@, "sign-file"),
                                    !.log = Append(@, <<"ERROR", "Failed to sign", name>>)]
                           ELSE DlCopyLoopNoKeyCheck(i + 1, keys, fail_at,
                                    [copied EXCEPT !.runs = Append(@, "sign-file"),
                                                   !.signed = @ \cup {name},
                                                   !.copied = @ + 1])
                      ELSE DlCopyLoopNoKeyCheck(i + 1, keys, fail_at,
                                      [copied EXCEPT !.copied = @ + 1])
             ELSE DlCopyLoopNoKeyCheck(i + 1, keys, fail_at,
                     [st EXCEPT !.log = Append(@, <<"WARNING", "Module not found", name>>)])

\* lines 593-622: the copy loop, up to its end or its first sys.exit.
\* keys is whether sign-file and both key files exist; fail_at is the position
\* in the manifest of the module sign-file fails on (0: none).
RECURSIVE DlCopyLoop(_, _, _, _)
DlCopyLoop(i, keys, fail_at, st) ==
    IF i > Len(modules) THEN st
    ELSE LET name == modules[i]
         IN  IF name \in tree
             THEN LET copied == [st EXCEPT !.files = @ \cup {name}]
                  IN  IF sign_modules
                      THEN IF ~keys
                           THEN [copied EXCEPT !.exit = TRUE,
                                    !.log = Append(@, <<"ERROR", "Missing signing tool or keys", <<>>>>)]
                           ELSE IF i = fail_at
                           THEN [copied EXCEPT !.exit = TRUE,
                                    !.runs = Append(@, "sign-file"),
                                    !.log = Append(@, <<"ERROR", "Failed to sign", name>>)]
                           ELSE DlCopyLoop(i + 1, keys, fail_at,
                                    [copied EXCEPT !.runs = Append(@, "sign-file"),
                                                   !.signed = @ \cup {name},
                                                   !.copied = @ + 1])
                      ELSE DlCopyLoop(i + 1, keys, fail_at,
                                      [copied EXCEPT !.copied = @ + 1])
             ELSE DlCopyLoop(i + 1, keys, fail_at,
                     [st EXCEPT !.log = Append(@, <<"WARNING", "Module not found", name>>)])

\* lines 593-626
DlCopyModules ==
    /\ fn = "dlkm" /\ pc = "copy"
    /\ \E keys \in BOOLEAN, fail_at \in 0..Len(modules) :
         LET r == DlCopyLoop(1, keys, fail_at,
                             [exit |-> FALSE, files |-> flat_dir.files,
                              copied |-> modules_copied, signed |-> signed,
                              runs |-> tool_runs, log |-> log])
         IN  /\ modules_copied' = r.copied
             /\ signed' = r.signed
             /\ signing_files' = keys
             /\ tool_runs' = r.runs
             /\ IF r.exit
                THEN /\ log' = r.log
                     /\ pc' = "aborted"
                     /\ RmStaging
                ELSE IF r.copied = 0
                THEN /\ log' = Append(r.log, <<"ERROR", "No modules copied", <<>>>>)
                     /\ pc' = "aborted"
                     /\ RmStaging
                ELSE /\ log' = r.log
                     /\ pc' = "tools"
                     /\ flat_dir' = Dir(r.files)
                     /\ UNCHANGED <<staging_dir, mod_root, dep_file, load_file,
                                    order_file>>
    /\ UNCHANGED <<env, signer, kernel_dirs, builtin, modules, cpio, artifact>>

\* the tools checked by the loop at lines 630-639, in its order
DlTools == <<"mkfs.erofs", "depmod">>

\* lines 628-643
DlCheckTools ==
    /\ fn = "dlkm" /\ pc = "tools"
    /\ \E have \in SUBSET {DlTools[i] : i \in 1..Len(DlTools)} :
         LET gone == FirstMissing(DlTools, have)
         IN  IF gone # ""
             THEN /\ log' = Say("ERROR", "tool not found", <<gone>>)
                  /\ RmStaging
                  /\ pc' = "aborted"
             ELSE /\ pc' = "depmod"
                  /\ UNCHANGED <<log, stage>>
    /\ UNCHANGED <<env, signer, signed, signing_files, kernel_dirs, builtin, modules, modules_copied,
                   cpio, artifact, tool_runs>>

\* line 645
DlDepmod ==
    /\ fn = "dlkm" /\ pc = "depmod"
    /\ tool_runs' = Append(tool_runs, "depmod")
    /\ \E rc \in ExitCodes :
         IF run_cmd(rc, TRUE) = "exit"
         THEN /\ pc' = "aborted"
              /\ log' = Say("ERROR", "Command failed", <<"depmod">>)
              /\ RmStaging
         ELSE /\ pc' = "flatten"
              /\ UNCHANGED <<log, staging_dir, mod_root, load_file, order_file>>
              /\ \/ UNCHANGED <<flat_dir, dep_file>>
                 \/ \E out \in DepmodOutputs(flat_dir.files) :
                      /\ flat_dir' = Dir(flat_dir.files \cup {ModulesDep})
                      /\ dep_file' = File(out)
    /\ UNCHANGED <<env, signer, signed, signing_files, kernel_dirs, builtin, modules, modules_copied,
                   cpio, artifact>>

\* lines 647-651
DlFlatten ==
    /\ fn = "dlkm" /\ pc = "flatten"
    /\ mod_root' = mod_root \cup flat_dir.files
    /\ flat_dir' = NoDir
    /\ pc' = "rewrite"
    /\ UNCHANGED <<env, signer, signed, signing_files, kernel_dirs, builtin, staging_dir, dep_file,
                   load_file, order_file, modules, modules_copied, cpio,
                   artifact, tool_runs, log>>

\* lines 653-669
DlRewriteDep ==
    /\ fn = "dlkm" /\ pc = "rewrite"
    /\ IF ModulesDep \in mod_root
       THEN /\ dep_file' = File(RewriteDepFile(mount_prefix, dep_file.lines))
            /\ pc' = "metadata"
            /\ UNCHANGED <<log, staging_dir, flat_dir, mod_root, load_file,
                           order_file>>
       ELSE /\ log' = Say("ERROR", "modules.dep not found", <<>>)
            /\ pc' = "aborted"
            /\ RmStaging
    /\ UNCHANGED <<env, signer, signed, signing_files, kernel_dirs, builtin, modules, modules_copied,
                   cpio, artifact, tool_runs>>

\* lines 671-687
DlMetadata ==
    /\ fn = "dlkm" /\ pc = "metadata"
    /\ \E have \in BuiltinSets :
         /\ builtin' = have
         /\ mod_root' = mod_root \cup have \cup {<<"modules.load">>, <<"modules.order">>}
         /\ log' = IF have = BuiltinFiles THEN log
                   ELSE Say("WARNING", "modules.builtin files not found", <<>>)
    /\ load_file' = File(LoadLines(modules))
    /\ order_file' = File(LoadLines(modules))
    /\ pc' = "package"
    /\ UNCHANGED <<env, signer, signed, signing_files, kernel_dirs, staging_dir, flat_dir, dep_file,
                   modules, modules_copied, cpio, artifact, tool_runs>>

\* mutant of fc_file: any other image name falls back on the vendor file
fc_file_defaulted(name) ==
    IF name = "system_dlkm" THEN "system_dlkm_file_contexts"
    ELSE "vendor_dlkm_file_contexts"

\* lines 689-694: the file_contexts chosen for the image; for any other image
\* name fc_file is never bound and reading it at line 702 raises
fc_file(name) ==
    IF name = "system_dlkm" THEN "system_dlkm_file_contexts"
    ELSE IF name = "vendor_dlkm" THEN "vendor_dlkm_file_contexts"
    ELSE "unbound"

\* lines 689-709: mkfs.erofs writes the image; the finally block cleans up
DlMkfs ==
    /\ fn = "dlkm" /\ pc = "package"
    /\ IF fc_file(image_name) = "unbound"
       THEN /\ pc' = "aborted"
            /\ log' = Say("CRITICAL", "Unhandled exception", <<"fc_file">>)
            /\ UNCHANGED <<artifact, tool_runs>>
       ELSE /\ tool_runs' = Append(tool_runs, "mkfs.erofs")
            /\ \E rc \in ExitCodes :
                 IF run_cmd(rc, TRUE) = "exit"
                 THEN /\ log' = Say("ERROR", "Command failed", <<"mkfs.erofs">>)
                      /\ pc' = "aborted"
                      /\ UNCHANGED artifact
                 ELSE /\ artifact' = TRUE
                      /\ pc' = "done"
                      /\ UNCHANGED log
    /\ RmStaging
    /\ UNCHANGED <<env, signer, signed, signing_files, kernel_dirs, builtin, modules, modules_copied,
                   cpio>>

build_dlkm_image ==
    \/ DlReadModules
    \/ DlKernelVersion
    \/ DlMkStaging
    \/ DlCopyModules
    \/ DlCheckTools
    \/ DlDepmod
    \/ DlFlatten
    \/ DlRewriteDep
    \/ DlMetadata
    \/ DlMkfs

(***************************************************************************)
(* The boot-image steps: build_boot_image (lines 308-344) and              *)
(* build_vendorboot_image (lines 711-782)                                  *)
(***************************************************************************)
\* lines 322-325: the files build_boot_image checks, in its order
BootRequired == <<"Image", "ramdisk.cpio.lz4">>

\* lines 744-749: the files build_vendorboot_image checks, in its order
VbRequired ==
    <<"vendor_ramdisk_platform.lz4", "vendor_ramdisk_recovery.lz4",
      "vendor_ramdisk_dlkm.cpio.lz4", "dtb.img">>

SetOf(seq) == {seq[i] : i \in 1..Len(seq)}

InitBoot ==
    /\ fn = "boot"
    /\ inputs \in SUBSET SetOf(BootRequired)
    /\ artifact \in BOOLEAN
    /\ NoBuildArgs /\ NoSignArgs
    /\ Fresh

InitVboot ==
    /\ fn = "vboot"
    /\ inputs \in SUBSET SetOf(VbRequired)
    /\ artifact \in BOOLEAN
    /\ NoBuildArgs /\ NoSignArgs
    /\ Fresh

\* mutant of CheckRequired: a missing file is logged and the loop goes on
CheckRequiredNoExit(files, msgs) ==
    LET RECURSIVE Go(_, _)
        Go(rest, out) ==
            IF rest = <<>> THEN [exit |-> FALSE, log |-> out]
            ELSE IF Head(rest) \notin inputs
                 THEN Go(Tail(rest), Append(out, <<"ERROR", "not found", <<Head(rest)>>>>))
                 ELSE Go(Tail(rest), out)
    IN  Go(files, msgs)

\* the check loops at lines 327-330 and 744-752: the messages logged, and
\* whether the loop ended in sys.exit(1)
RECURSIVE CheckRequired(_, _)
CheckRequired(files, msgs) ==
    IF files = <<>> THEN [exit |-> FALSE, log |-> msgs]
    ELSE IF Head(files) \notin inputs
         THEN [exit |-> TRUE,
               log  |-> Append(msgs, <<"ERROR", "not found", <<Head(files)>>>>)]
         ELSE CheckRequired(Tail(files), msgs)

\* lines 321-330
BootCheckInputs ==
    /\ fn = "boot" /\ pc = "start"
    /\ LET r == CheckRequired(BootRequired, log)
       IN  /\ log' = r.log
           /\ pc' = IF r.exit THEN "aborted" ELSE "mkbootimg"
    /\ UNCHANGED <<env, signer, signed, signing_files, kernel_dirs, builtin, stage, modules,
                   modules_copied, cpio, artifact, tool_runs>>

\* lines 332-344: mkbootimg is run; without a boot.img afterwards the step exits
BootMkbootimg ==
    /\ fn = "boot" /\ pc = "mkbootimg"
    /\ tool_runs' = Append(tool_runs, "mkbootimg")
    /\ \E rc \in ExitCodes :
         IF run_cmd(rc, TRUE) = "exit"
         THEN /\ log' = Say("ERROR", "Command failed", <<"mkbootimg">>)
              /\ pc' = "aborted"
              /\ UNCHANGED artifact
         ELSE \E wrote \in BOOLEAN :
              /\ artifact' = (artifact \/ wrote)
              /\ pc' = IF artifact' THEN "done" ELSE "aborted"
              /\ UNCHANGED log
    /\ UNCHANGED <<env, signer, signed, signing_files, kernel_dirs, builtin, stage, modules,
                   modules_copied, cpio>>

build_boot_image == BootCheckInputs \/ BootMkbootimg

\* lines 731-741: the staging directory and the bootconfig file in it
VbMkStaging ==
    /\ fn = "vboot" /\ pc = "start"
    /\ staging_dir' = TRUE
    /\ pc' = "check"
    /\ UNCHANGED <<env, signer, signed, signing_files, kernel_dirs, builtin, flat_dir, mod_root,
                   dep_file, load_file, order_file, modules, modules_copied,
                   cpio, artifact, tool_runs, log>>

\* lines 743-752, and the finally block at 779-782 when an input is missing
VbCheckInputs ==
    /\ fn = "vboot" /\ pc = "check"
    /\ LET r == CheckRequired(VbRequired, log)
       IN  /\ log' = r.log
           /\ IF r.exit
              THEN pc' = "aborted" /\ RmStaging
              ELSE pc' = "mkbootimg" /\ UNCHANGED stage
    /\ UNCHANGED <<env, signer, signed, signing_files, kernel_dirs, builtin, modules,
                   modules_copied, cpio, artifact, tool_runs>>

\* lines 754-782: mkbootimg is run; the finally block removes the staging
VbMkbootimg ==
    /\ fn = "vboot" /\ pc = "mkbootimg"
    /\ tool_runs' = Append(tool_runs, "mkbootimg")
    /\ \E rc \in ExitCodes :
         IF run_cmd(rc, TRUE) = "exit"
         THEN /\ log' = Say("ERROR", "Command failed", <<"mkbootimg">>)
              /\ pc' = "aborted"
              /\ UNCHANGED artifact
         ELSE \E wrote \in BOOLEAN :
              /\ artifact' = (artifact \/ wrote)
              /\ IF artifact'
                 THEN pc' = "done" /\ UNCHANGED log
                 ELSE /\ pc' = "aborted"
                      /\ log' = Say("ERROR", "Failed to generate", <<"vendor_boot.img">>)
    /\ RmStaging
    /\ UNCHANGED <<env, signer, signed, signing_files, kernel_dirs, builtin, modules,
                   modules_copied, cpio>>

build_vendorboot_image == VbMkStaging \/ VbCheckInputs \/ VbMkbootimg

(***************************************************************************)
(* sign_partition_image (lines 784-851)                                    *)
(***************************************************************************)
\* raw image sizes go up to this many 4096-byte blocks
MaxBlocks == 2

PartitionNames ==
    {"boot", "vendor_boot", "dtbo", "init_boot", "system_dlkm", "vendor_dlkm",
     "super"}

RawSizes ==
    {k * 4096 + d : k \in 0..MaxBlocks, d \in {0, 1, 4095}} \cup {10000000}

InitSign ==
    /\ fn = "sign"
    /\ partition_name \in PartitionNames
    /\ image_exists \in BOOLEAN
    /\ key_exists \in BOOLEAN
    /\ avbtool_exists \in BOOLEAN
    /\ raw_size \in RawSizes
    /\ artifact = FALSE
    /\ NoBuildArgs /\ NoBootArgs
    /\ Fresh

\* line 793: "not avbtool" tests a Path object, which is always true-valued
NotAvbtool == FALSE

\* lines 792-798: the missing list
MissingComponents ==
    (IF NotAvbtool THEN <<"avbtool">> ELSE <<>>)
        \o (IF ~image_exists THEN <<"image">> ELSE <<>>)
        \o (IF ~key_exists THEN <<"key">> ELSE <<>>)

\* lines 789-802
SignCheck ==
    /\ fn = "sign" /\ pc = "start"
    /\ LET missing == MissingComponents
       IN  IF missing # <<>>
           THEN /\ log' = Say("ERROR", "Required component(s) missing", missing)
                /\ pc' = "aborted"
           ELSE /\ pc' = "size"
                /\ UNCHANGED log
    /\ UNCHANGED <<env, signer, signed, signing_files, kernel_dirs, builtin, stage, modules,
                   modules_copied, cpio, artifact, tool_runs>>

\* mutant of SizedPartitions: dtbo left out of the test of line 805
SizedPartitionsNoDtbo == {"boot", "vendor_boot"}

\* line 805: the names that take the branch computing a partition size
SizedPartitions == {"boot", "vendor_boot", "dtbo"}

\* mutant of partition_sizes: boot given the size of init_boot
partition_sizes_boot_small(name) ==
    CASE name = "boot"        -> 16777216
      [] name = "vendor_boot" -> 67108864
      [] name = "dtbo"        -> 8388608
      [] name = "init_boot"   -> 16777216
      [] OTHER                -> 0

\* lines 807-813: partition_sizes.get(partition_name); 0 stands for None
partition_sizes(name) ==
    CASE name = "boot"        -> 67108864
      [] name = "vendor_boot" -> 67108864
      [] name = "dtbo"        -> 8388608
      [] name = "init_boot"   -> 16777216
      [] OTHER                -> 0

\* math.ceil(a / b) for positive b
CeilDiv(a, b) == (a + b - 1) \div b

\* lines 813-816
PaddedSize(name, size) ==
    IF partition_sizes(name) # 0 THEN partition_sizes(name)
    ELSE CeilDiv(size + 128 * 1024, 4096) * 4096

\* lines 804-816: padded_size is bound only inside the branch of line 805
SignSize ==
    /\ fn = "sign" /\ pc = "size"
    /\ padded_size' = IF partition_name \in SizedPartitions
                      THEN Bound(PaddedSize(partition_name, raw_size))
                      ELSE Unbound
    /\ pc' = "run"
    /\ UNCHANGED <<env, avb_cmd, signed, signing_files, kernel_dirs, builtin, stage, modules,
                   modules_copied, cpio, artifact, tool_runs, log>>

\* mutant of HashFooterPartitions: dtbo treated as a boot-type partition
HashFooterPartitionsWithDtbo == {"boot", "vendor_boot", "dtbo"}

\* line 817: the names signed with add_hash_footer
HashFooterPartitions == {"boot", "vendor_boot"}

\* lines 817-849: the avbtool command line built for the partition
AvbCommand(name) ==
    IF name \in SizedPartitions
    THEN [footer |-> IF name \in HashFooterPartitions
                     THEN "add_hash_footer" ELSE "add_hashtree_footer",
          with_size |-> TRUE,
          partition_size |-> padded_size.value,
          returncode |-> 0]
    ELSE [footer |-> "add_hashtree_footer", with_size |-> FALSE,
          partition_size |-> 0, returncode |-> 0]

\* the status /bin/sh ends with when the command's program does not exist
ShellNotFound == 127

\* exit statuses of the avbtool command line run by subprocess.run(shell=True)
AvbExitCodes == IF avbtool_exists THEN ExitCodes ELSE {ShellNotFound}

\* lines 817-851: the command is run through run_cmd, fatal on error
SignRun ==
    /\ fn = "sign" /\ pc = "run"
    /\ tool_runs' = Append(tool_runs, "avbtool")
    /\ \E rc \in AvbExitCodes :
         /\ avb_cmd' = [AvbCommand(partition_name) EXCEPT !.returncode = rc]
         /\ IF run_cmd(rc, TRUE) = "exit"
            THEN /\ log' = Say("ERROR", "Command failed", <<"avbtool">>)
                 /\ pc' = "aborted"
            ELSE /\ log' = Say("INFO", "signed successfully", <<partition_name>>)
                 /\ pc' = "done"
    /\ UNCHANGED <<env, padded_size, signed, signing_files, kernel_dirs, builtin, stage,
                   modules, modules_copied, cpio, artifact>>

sign_partition_image == SignCheck \/ SignSize \/ SignRun

SpecSign == InitSign /\ [][sign_partition_image]_vars

Init == InitRd \/ InitDlkm \/ InitBoot \/ InitVboot

Next ==
    \/ mk_vendor_rd_dlkm
    \/ build_dlkm_image
    \/ build_boot_image
    \/ build_vendorboot_image

Spec == Init /\ [][Next]_vars

\* the boot-image steps alone
SpecBoot ==
    (InitBoot \/ InitVboot) /\ [][build_boot_image \/ build_vendorboot_image]_vars

\* the ramdisk step alone
SpecRd == InitRd /\ [][mk_vendor_rd_dlkm]_vars

(***************************************************************************)
(* The dependency-file rewrite on its own: a staging tree that depmod has  *)
(* just filled and that has been flattened, for every modules.dep depmod   *)
(* may write over up to three modules.                                     *)
(***************************************************************************)
DepNames == {a_ko, b_ko, c_ko}

\* the names of S in sorted order
SortedSeq(S) ==
    LET RECURSIVE From(_)
        From(i) ==
            IF i > Len(NameOrder) THEN <<>>
            ELSE IF NameOrder[i] \in S THEN <<NameOrder[i]>> \o From(i + 1)
            ELSE From(i + 1)
    IN  From(1)

ListFileOf(names) == File([i \in 1..Len(names) |-> names[i] \o <<"\n">>])

InitDep ==
    /\ pc = "rewrite"
    /\ \E S \in (SUBSET DepNames) \ {{}} :
         /\ tree = S
         /\ modules = SortedSeq(S)
         /\ modules_copied = Cardinality(S)
         /\ mod_root = S \cup {ModulesDep}
         /\ \E out \in DepmodOutputs(S) : dep_file = File(out)
         /\ \/ /\ fn = "rd"
               /\ image_name = "vendor_ramdisk_dlkm"
               /\ mount_prefix = <<>>
               /\ early_file = File(<<>>)
               /\ list_file = ListFileOf(SortedSeq(S))
               /\ bzl = [is_file |-> FALSE, names |-> {}]
            \/ /\ fn = "dlkm"
               /\ image_name = "system_dlkm"
               /\ mount_prefix = <<"/", image_name>>
               /\ early_file = NoFile
               /\ list_file = NoFile
               /\ bzl = [is_file |-> TRUE, names |-> S]
            \/ /\ fn = "dlkm"
               /\ image_name = "vendor_dlkm"
               /\ mount_prefix = <<"/", image_name>>
               /\ early_file = NoFile
               /\ list_file = ListFileOf(SortedSeq(S))
               /\ bzl = [is_file |-> FALSE, names |-> {}]
    /\ sign_modules = FALSE
    /\ signed = {}
    /\ signing_files = FALSE
    /\ NoMain
    /\ kernel_dirs = 1
    /\ builtin = {}
    /\ staging_dir = TRUE
    /\ flat_dir = NoDir
    /\ load_file = NoFile
    /\ order_file = NoFile
    /\ cpio = FALSE
    /\ artifact = FALSE
    /\ tool_runs = <<"depmod">>
    /\ log = <<>>
    /\ padded_size = Unbound
    /\ avb_cmd = NoCmd
    /\ NoBootArgs /\ NoSignArgs

SpecDep == InitDep /\ [][RdRewriteDep \/ DlRewriteDep]_vars

(***************************************************************************)
(* main (lines 1028-1206): the functions it calls, in order.  A call is    *)
(* taken as a whole: it ends "done", or "exit" when it ends in sys.exit.   *)
(***************************************************************************)
\* the variables of the build steps, which main's own steps leave alone
stepv == <<early_file, list_file, tree, kernel_dirs, builtin, mount_prefix,
           image_name, sign_modules, bzl, signed, signing_files, inputs,
           partition_name, image_exists, key_exists, avbtool_exists, raw_size,
           padded_size, avb_cmd, modules, modules_copied, staging_dir,
           flat_dir, mod_root, dep_file, load_file, order_file, cpio,
           artifact, tool_runs>>

\* lines 1051-1102: every combination of the store_true flags
Flags ==
    [clean : BOOLEAN, create_dtbo_images : BOOLEAN, create_boot_image : BOOLEAN,
     build_vendor_ramdisk_dlkm : BOOLEAN, build_vendor_boot_image : BOOLEAN,
     build_dlkm_image : BOOLEAN, sign_images : BOOLEAN]

\* lines 1175-1181: the images list of the signing loop, in its order
Images == <<"dtbo", "boot", "system_dlkm", "vendor_dlkm", "vendor_boot">>

\* mutant of Requested: every image counts as requested
RequestedAlways(a, name) == TRUE

\* lines 1175-1181: the third component of an images entry
Requested(a, name) ==
    CASE name = "dtbo"        -> a.create_dtbo_images
      [] name = "boot"        -> a.create_boot_image
      [] name = "system_dlkm" -> a.build_dlkm_image
      [] name = "vendor_dlkm" -> a.build_dlkm_image
      [] name = "vendor_boot" -> a.build_vendor_boot_image

\* main is entered; image files of earlier runs may lie in DIST_DIR
InitMain ==
    /\ fn = "main"
    /\ pc = "setup"
    /\ args \in Flags
    /\ calls = <<>>
    /\ dist \in SUBSET SetOf(Images)
    /\ image_index = 0
    /\ signed_any = FALSE
    /\ exit_status = Unbound
    /\ artifact = FALSE
    /\ NoBuildArgs /\ NoBootArgs /\ NoSignArgs
    /\ FreshStep

\* how a called function may end
Outcomes == {"done", "exit"}

\* clean_build_artifacts (lines 191-206) runs make with fatal_on_error=False:
\* it returns whether or not make failed
CleanOutcomes == {"done", "cmd_failed"}

\* build_dlkm_image (lines 593-626) returns normally also when a module of
\* its manifest was not found and only the WARNING of line 622 was logged
DlkmOutcomes == {"done", "unresolved", "exit"}

\* mutant of After: the signing block placed ahead of the dlkm images
AfterSignBeforeDlkm(p) ==
    CASE p = "setup"       -> "validate"
      [] p = "validate"    -> "clean"
      [] p = "clean"       -> "kernel"
      [] p = "kernel"      -> "dtbo"
      [] p = "dtbo"        -> "boot"
      [] p = "boot"        -> "rd"
      [] p = "rd"          -> "vb_dtbo"
      [] p = "vb_dtbo"     -> "vb_rd"
      [] p = "vb_rd"       -> "vboot"
      [] p = "vboot"       -> "sign"
      [] p = "sign"        -> "system_dlkm"
      [] p = "system_dlkm" -> "vendor_dlkm"
      [] p = "vendor_dlkm" -> "success"

\* lines 1107-1206: the statement that follows each statement of main
After(p) ==
    CASE p = "setup"       -> "validate"
      [] p = "validate"    -> "clean"
      [] p = "clean"       -> "kernel"
      [] p = "kernel"      -> "dtbo"
      [] p = "dtbo"        -> "boot"
      [] p = "boot"        -> "rd"
      [] p = "rd"          -> "vb_dtbo"
      [] p = "vb_dtbo"     -> "vb_rd"
      [] p = "vb_rd"       -> "vboot"
      [] p = "vboot"       -> "system_dlkm"
      [] p = "system_dlkm" -> "vendor_dlkm"
      [] p = "vendor_dlkm" -> "sign"
      [] p = "sign"        -> "success"

Called(callee, arg, outcome) ==
    Append(calls, [callee |-> callee, arg |-> arg, outcome |-> outcome])

\* lines 1198-1200: sys.exit inside the try block ends main with status 1
SysExit(msgs) ==
    /\ log' = Append(msgs, <<"INFO", "Build process terminated due to fatal error", <<>>>>)
    /\ pc' = "exited"
    /\ exit_status' = Bound(1)

\* one statement of main: when wanted, the function is called and, unless it
\* exits, the images it writes are in DIST_DIR afterwards
Stage(p, wanted, callee, arg, outcomes, images) ==
    /\ fn = "main" /\ pc = p
    /\ IF ~wanted
       THEN /\ pc' = After(p)
            /\ UNCHANGED <<calls, dist, log, exit_status>>
       ELSE \E o \in outcomes :
              /\ calls' = Called(callee, arg, o)
              /\ IF o = "exit"
                 THEN SysExit(log) /\ UNCHANGED dist
                 ELSE /\ pc' = After(p)
                      /\ dist' = dist \cup images
                      /\ UNCHANGED <<log, exit_status>>
    /\ UNCHANGED <<fn, image_index, signed_any, stepv>>

\* line 1107
MainSetup ==
    Stage("setup", TRUE, "setup_environment", "", Outcomes, {}) /\ UNCHANGED args

\* line 1108
MainValidate ==
    Stage("validate", TRUE, "validate_prebuilts", "", Outcomes, {}) /\ UNCHANGED args

\* lines 1110-1111
MainClean ==
    /\ Stage("clean", args.clean, "clean_build_artifacts", "", CleanOutcomes, {})
    /\ UNCHANGED args

\* lines 1114-1121
MainBuildKernel ==
    Stage("kernel", TRUE, "build_kernel", "", Outcomes, {}) /\ UNCHANGED args

\* lines 1124-1125
MainDtbo ==
    /\ Stage("dtbo", args.create_dtbo_images \/ args.build_vendor_boot_image,
             "build_dtbo_images", "", Outcomes, {"dtbo"})
    /\ UNCHANGED args

\* lines 1127-1128
MainBoot ==
    /\ Stage("boot", args.create_boot_image, "build_boot_image", "", Outcomes,
             {"boot"})
    /\ UNCHANGED args

\* mutant of RdRequested: the test on build_vendor_boot_image left out
RdRequestedAlone(a) == a.build_vendor_ramdisk_dlkm

\* line 1131
RdRequested(a) == a.build_vendor_ramdisk_dlkm /\ ~a.build_vendor_boot_image

\* lines 1130-1136
MainRd ==
    /\ Stage("rd", RdRequested(args), "mk_vendor_rd_dlkm", "", Outcomes, {})
    /\ UNCHANGED args

\* lines 1139-1148: the flags switched on for vendor_boot.img, then dtbo again
MainVbDtbo ==
    /\ fn = "main" /\ pc = "vb_dtbo"
    /\ IF ~args.build_vendor_boot_image
       THEN /\ pc' = After("vb_dtbo")
            /\ UNCHANGED <<args, calls, dist, log, exit_status>>
       ELSE LET l1 == IF ~args.create_dtbo_images
                      THEN Say("INFO", "Auto-enabling", <<"--create-dtbo-images">>)
                      ELSE log
                l2 == IF ~args.build_vendor_ramdisk_dlkm
                      THEN Append(l1, <<"INFO", "Auto-enabling", <<"--build-vendor-ramdisk-dlkm">>>>)
                      ELSE l1
            IN  /\ args' = [args EXCEPT !.create_dtbo_images = TRUE,
                                        !.build_vendor_ramdisk_dlkm = TRUE]
                /\ \E o \in Outcomes :
                     /\ calls' = Called("build_dtbo_images", "", o)
                     /\ IF o = "exit"
                        THEN SysExit(l2) /\ UNCHANGED dist
                        ELSE /\ pc' = After("vb_dtbo")
                             /\ log' = l2
                             /\ dist' = dist \cup {"dtbo"}
                             /\ UNCHANGED exit_status
    /\ UNCHANGED <<fn, image_index, signed_any, stepv>>

\* lines 1150-1155
MainVbRd ==
    /\ Stage("vb_rd", args.build_vendor_boot_image, "mk_vendor_rd_dlkm", "",
             Outcomes, {})
    /\ UNCHANGED args

\* line 1156
MainVendorBoot ==
    /\ Stage("vboot", args.build_vendor_boot_image, "build_vendorboot_image", "",
             Outcomes, {"vendor_boot"})
    /\ UNCHANGED args

\* lines 1159-1165
MainDlkmSystem ==
    /\ Stage("system_dlkm", args.build_dlkm_image, "build_dlkm_image",
             "system_dlkm", DlkmOutcomes, {"system_dlkm"})
    /\ UNCHANGED args

\* lines 1166-1171
MainDlkmVendor ==
    /\ Stage("vendor_dlkm", args.build_dlkm_image, "build_dlkm_image",
             "vendor_dlkm", DlkmOutcomes, {"vendor_dlkm"})
    /\ UNCHANGED args

\* lines 1174-1183: the signing block is entered with --sign-images only
MainSignImages ==
    /\ fn = "main" /\ pc = "sign"
    /\ pc' = IF args.sign_images THEN "sign_loop" ELSE After("sign")
    /\ UNCHANGED <<fn, args, calls, dist, image_index, signed_any, exit_status,
                   log, stepv>>

\* lines 1184-1192: one turn of the loop over images
MainSignImage ==
    /\ fn = "main" /\ pc = "sign_loop"
    /\ image_index < Len(Images)
    /\ image_index' = image_index + 1
    /\ LET name == Images[image_index + 1]
       IN  IF name \in dist
           THEN IF Requested(args, name)
                THEN \E o \in Outcomes :
                       /\ calls' = Called("sign_partition_image", name, o)
                       /\ IF o = "exit"
                          THEN SysExit(log) /\ UNCHANGED signed_any
                          ELSE /\ signed_any' = TRUE
                               /\ UNCHANGED <<pc, log, exit_status>>
                ELSE /\ log' = Say("SKIP", "exists but not requested", <<name>>)
                     /\ UNCHANGED <<pc, calls, signed_any, exit_status>>
           ELSE /\ log' = IF Requested(args, name)
                          THEN Say("MISS", "requested but not built", <<name>>)
                          ELSE log
                /\ UNCHANGED <<pc, calls, signed_any, exit_status>>
    /\ UNCHANGED <<fn, args, dist, stepv>>

\* lines 1194-1196
MainSignCheck ==
    /\ fn = "main" /\ pc = "sign_loop"
    /\ image_index = Len(Images)
    /\ IF ~signed_any
       THEN SysExit(Say("ERROR", "no image found to sign", <<>>))
       ELSE /\ pc' = After("sign")
            /\ UNCHANGED <<log, exit_status>>
    /\ UNCHANGED <<fn, args, calls, dist, image_index, signed_any, stepv>>

\* line 1206
MainSuccess ==
    /\ fn = "main" /\ pc = "success"
    /\ log' = Say("INFO", "Android kernel build completed successfully", <<>>)
    /\ exit_status' = Bound(0)
    /\ pc' = "exited"
    /\ UNCHANGED <<fn, args, calls, dist, image_index, signed_any, stepv>>

main ==
    \/ MainSetup
    \/ MainValidate
    \/ MainClean
    \/ MainBuildKernel
    \/ MainDtbo
    \/ MainBoot
    \/ MainRd
    \/ MainVbDtbo
    \/ MainVbRd
    \/ MainVendorBoot
    \/ MainDlkmSystem
    \/ MainDlkmVendor
    \/ MainSignImages
    \/ MainSignImage
    \/ MainSignCheck
    \/ MainSuccess

SpecMain == InitMain /\ [][main]_vars

(***************************************************************************)
(* Properties                                                              *)
(***************************************************************************)
Ended == pc \in {"done", "aborted"}

Ran(tool) == \E i \in 1..Len(tool_runs) : tool_runs[i] = tool

\* C1: whenever a build step that makes a staging directory has ended, by
\* return or by any exit, its staging directory no longer exists.
C1_StagingRemovedAtEnd ==
    (fn \in {"rd", "dlkm", "vboot"} /\ Ended) => ~staging_dir

\* C2: in the ramdisk build and the filesystem-image build, a manifest entry
\* with no file of that name in the installed-module tree makes the build
\* abort: it never ends normally and the packaging tool is never run.
C2_MissingModuleAborts ==
    (fn \in {"rd", "dlkm"} /\ \E i \in 1..Len(modules) : modules[i] \notin tree)
        => (pc # "done" /\ ~Ran("mkbootfs") /\ ~Ran("mkfs.erofs"))

\* the manifest entries that end in ".ko", in manifest order
KoEntries(manifest) ==
    SelectSeq(manifest,
              LAMBDA n : /\ Len(n) >= 3
                         /\ n[Len(n) - 2] = "." /\ n[Len(n) - 1] = "k"
                         /\ n[Len(n)] = "o")

\* C3: modules.load and modules.order both hold exactly the manifest entries
\* ending in ".ko", in manifest order, one per line, duplicates kept.
C3_LoadOrderFiles ==
    (load_file.is_file \/ order_file.is_file) =>
        LET want == KoEntries(modules)
            text == [i \in 1..Len(want) |-> want[i] \o <<"\n">>]
        IN  /\ load_file.is_file /\ order_file.is_file
            /\ load_file.lines = text
            /\ order_file.lines = text

\* C3 witness: the files are written for a manifest that repeats a module and
\* has an entry not ending in ".ko"
C3_Witness ==
    /\ pc = "package"
    /\ load_file.is_file
    /\ \E i, j \in 1..Len(modules) : i < j /\ modules[i] = modules[j]
    /\ \E k \in 1..Len(modules) : modules[k] = fw
    /\ Len(load_file.lines) = 2

\* a line without the whitespace around it
Trimmed(line) ==
    LET ink == {i \in 1..Len(line) : line[i] \notin {" ", "\t", "\n", "\r"}}
    IN  IF ink = {} THEN <<>>
        ELSE SubSeq(line, CHOOSE a \in ink : \A b \in ink : a <= b,
                          CHOOSE a \in ink : \A b \in ink : a >= b)

\* the entries of a list file: its lines in order, trimmed, without the blank
\* ones and the ones starting with "#"
Entries(f) ==
    SelectSeq([i \in 1..Len(f.lines) |-> Trimmed(f.lines[i])],
              LAMBDA l : l # <<>> /\ l[1] # "#")

\* C4: the manifest the ramdisk build uses is the entries of the early list
\* followed by the entries of the normal list.
C4_ManifestIsEarlyThenNormal ==
    (fn = "rd" /\ pc # "start" /\ early_file.is_file /\ list_file.is_file)
        => modules = Entries(early_file) \o Entries(list_file)

\* C4 witness: both lists contribute an entry and a comment or blank line was
\* dropped
C4_Witness ==
    /\ fn = "rd" /\ pc = "kernel"
    /\ Entries(early_file) # <<>> /\ Entries(list_file) # <<>>
    /\ Entries(early_file) # Entries(list_file)
    /\ Len(modules) < Len(early_file.lines) + Len(list_file.lines)

\* a name under the mount prefix
Mounted(name) == mount_prefix \o <<"/lib/modules/">> \o name

RECURSIVE MountedDeps(_)
MountedDeps(deps) ==
    IF deps = <<>> THEN <<>>
    ELSE <<" ">> \o Mounted(Head(deps)) \o MountedDeps(Tail(deps))

\* C5: the rewrite turns the line "name: dep1 dep2 ..." into
\* "<prefix>/lib/modules/name: <prefix>/lib/modules/dep1 ..." and the line
\* "name:" into "<prefix>/lib/modules/name:", keeping the order of the lines
\* and of the dependencies.
C5_DepRewrite ==
    [][(pc = "rewrite" /\ pc' = "metadata") =>
         /\ Len(dep_file'.lines) = Len(dep_file.lines)
         /\ \A i \in 1..Len(dep_file.lines) :
              \E n \in DepNames :
                \E d \in Arrangements(DepNames \ {n}) :
                  /\ dep_file.lines[i] = DepLine(n, d)
                  /\ dep_file'.lines[i] =
                        Mounted(n) \o <<":">> \o MountedDeps(d)
                          \o (IF i < Len(dep_file.lines) THEN <<"\n">> ELSE <<>>)
      ]_vars

\* C5 witness: a rewritten file with a two-dependency line and a line without
\* dependencies, under a non-empty prefix
C5_Witness ==
    /\ pc = "metadata"
    /\ mount_prefix # <<>>
    /\ Len(dep_file.lines) = 3
    /\ dep_file.lines[1] =
          Mounted(a_ko) \o <<":", " ">> \o Mounted(c_ko) \o <<" ">>
              \o Mounted(b_ko) \o <<"\n">>
    /\ dep_file.lines[3] = Mounted(c_ko) \o <<":">>

\* C6: the footer class follows the partition name alone: add_hash_footer for
\* boot and vendor_boot, add_hashtree_footer for dtbo and every other name.
C6_FooterClass ==
    avb_cmd.footer # "" =>
        avb_cmd.footer = IF partition_name = "boot" \/ partition_name = "vendor_boot"
                         THEN "add_hash_footer"
                         ELSE "add_hashtree_footer"

\* C6 witness: dtbo has been signed, with a hashtree footer
C6_Witness ==
    /\ pc = "done"
    /\ partition_name = "dtbo"
    /\ avb_cmd.footer = "add_hashtree_footer"

\* the names that have a fixed size in the table of lines 807-812
FixedSizeNames == {"boot", "vendor_boot", "dtbo", "init_boot"}

\* the smallest multiple of 4096 that is at least size + 131072
IsCeilPadded(v, size) ==
    /\ v % 4096 = 0
    /\ v >= size + 131072
    /\ v - 4096 < size + 131072

\* C7 as stated: once the padded size is determined it is 67108864 for boot,
\* whatever the raw size, and ceil((raw_size + 131072) / 4096) * 4096 for a
\* partition name without a fixed size.
C7_PaddedSizeAsStated ==
    (fn = "sign" /\ pc \in {"run", "done"}) =>
        /\ partition_name = "boot" => padded_size = Bound(67108864)
        /\ partition_name \notin FixedSizeNames =>
              /\ padded_size.bound
              /\ IsCeilPadded(padded_size.value, raw_size)

\* C7 as amended: the padded size is 67108864 for boot (and vendor_boot) and
\* 8388608 for dtbo, whatever the raw size; for every other partition name no
\* padded size is computed.  The expression of lines 815-816 does give
\* ceil((raw_size + 131072) / 4096) * 4096 for a name without a fixed size,
\* but no such name reaches it.
C7_PaddedSize ==
    (fn = "sign" /\ pc \in {"run", "done"}) =>
        /\ padded_size =
              IF partition_name \in {"boot", "vendor_boot"} THEN Bound(67108864)
              ELSE IF partition_name = "dtbo" THEN Bound(8388608)
              ELSE Unbound
        /\ partition_name \notin FixedSizeNames =>
              IsCeilPadded(PaddedSize(partition_name, raw_size), raw_size)

\* C7 witness: an image of 10000000 bytes signed for a partition without a
\* fixed size
C7_Witness ==
    /\ pc = "done"
    /\ partition_name = "system_dlkm"
    /\ raw_size = 10000000
    /\ PaddedSize(partition_name, raw_size) = 10133504
    /\ ~padded_size.bound

\* C8 as stated: a partition size is passed only with the whole-image hash
\* footer; no add_hashtree_footer command carries one.
C8_SizeOnlyForHashFooter ==
    avb_cmd.with_size => avb_cmd.footer = "add_hash_footer"

\* C8 as amended: a partition size is passed with the whole-image hash footer
\* (boot, vendor_boot) and with the hashtree footer of dtbo, which gets its
\* fixed size 8388608; every other add_hashtree_footer command carries none.
C8_SizeForHashFooterAndDtbo ==
    avb_cmd.footer # "" =>
        /\ avb_cmd.with_size <=> partition_name \in {"boot", "vendor_boot", "dtbo"}
        /\ avb_cmd.footer = "add_hash_footer" =>
              avb_cmd.with_size /\ avb_cmd.partition_size = 67108864
        /\ (avb_cmd.footer = "add_hashtree_footer" /\ avb_cmd.with_size) =>
              partition_name = "dtbo" /\ avb_cmd.partition_size = 8388608

\* C8 witness: dtbo signed with a hashtree footer and a partition size
C8_Witness ==
    /\ pc = "done"
    /\ avb_cmd.footer = "add_hashtree_footer"
    /\ avb_cmd.with_size
    /\ avb_cmd.partition_size = 8388608

SignedReported ==
    \E i \in 1..Len(log) : log[i][1] = "INFO" /\ log[i][2] = "signed successfully"

\* C9: sign_partition_image ends aborted whenever the signing tool, the key or
\* the image is missing or the tool exits non-zero, and ends with the image
\* reported as signed only when none of these holds.
C9_SignedOrAborted ==
    (fn = "sign" /\ Ended) =>
        LET failed == \/ ~avbtool_exists \/ ~key_exists \/ ~image_exists
                      \/ (Ran("avbtool") /\ avb_cmd.returncode # 0)
        IN  /\ failed => (pc = "aborted" /\ ~SignedReported)
            /\ ~failed => (pc = "done" /\ SignedReported /\ Ran("avbtool"))

\* C9 witness: image and key are there, the signing tool is not, and the run
\* has aborted
C9_Witness ==
    /\ fn = "sign" /\ pc = "aborted"
    /\ image_exists /\ key_exists /\ ~avbtool_exists

Required == IF fn = "boot" THEN BootRequired ELSE VbRequired

MissingInputs == SetOf(Required) \ inputs

Reported(file) ==
    \E i \in 1..Len(log) : log[i][2] = "not found" /\ log[i][3] = <<file>>

\* C10 as stated: with a required input missing the boot-image tool is never
\* run, and every missing input has been reported when the step has aborted.
C10_AllMissingReported ==
    (fn \in {"boot", "vboot"} /\ MissingInputs # {}) =>
        /\ ~Ran("mkbootimg")
        /\ Ended => \A f \in MissingInputs : Reported(f)

\* C10 as amended: with a required input missing the boot-image tool is never
\* run; the step aborts at the first missing input in check order, which is
\* the only one reported.
C10_FirstMissingReported ==
    (fn \in {"boot", "vboot"} /\ MissingInputs # {}) =>
        /\ ~Ran("mkbootimg")
        /\ pc # "done"
        /\ Ended =>
              LET first == CHOOSE i \in 1..Len(Required) :
                              /\ Required[i] \notin inputs
                              /\ \A j \in 1..(i - 1) : Required[j] \in inputs
              IN  \A f \in SetOf(Required) : Reported(f) <=> f = Required[first]

\* C10 witness: the vendor boot step has aborted with two inputs missing
C10_Witness ==
    /\ fn = "vboot" /\ pc = "aborted"
    /\ Cardinality(MissingInputs) = 2
    /\ Len(log) = 1

\* C11 as stated: a staging build goes past the search for the kernel-release
\* directory only when the installed-module tree holds exactly one; with none
\* and with more than one it aborts.
C11_ExactlyOneKernelDir ==
    (fn \in {"rd", "dlkm"} /\ pc \notin {"start", "kernel", "aborted"})
        => kernel_dirs = 1

\* the build has gone past reading its manifest and making its staging tree
Proceeds == pc \notin {"start", "kernel", "staging", "aborted"}

\* C12 as stated: a build proceeds only when every required list source is
\* there and holds at least one entry, and then its manifest is not empty.
C12_EverySourceHasEntries ==
    (fn \in {"rd", "dlkm"} /\ Proceeds) =>
        /\ modules # <<>>
        /\ fn = "rd" =>
              /\ early_file.is_file /\ Entries(early_file) # <<>>
              /\ list_file.is_file /\ Entries(list_file) # <<>>
        /\ (fn = "dlkm" /\ image_name = "system_dlkm") =>
              bzl.is_file /\ bzl.names # {}
        /\ (fn = "dlkm" /\ image_name # "system_dlkm") =>
              list_file.is_file /\ Entries(list_file) # <<>>

\* C13: build_dlkm_image called for an image name other than system_dlkm and
\* vendor_dlkm never runs mkfs.erofs and never ends normally.
C13_UnknownImageRejected ==
    (fn = "dlkm" /\ image_name \notin {"system_dlkm", "vendor_dlkm"}) =>
        /\ ~Ran("mkfs.erofs")
        /\ pc # "done"

\* C13 witness: the step for another image name got as far as choosing the
\* file_contexts and ended there, its staging tree removed
C13_Witness ==
    /\ fn = "dlkm" /\ image_name = "odm_dlkm"
    /\ pc = "aborted"
    /\ Ran("depmod")
    /\ builtin # {}
    /\ ~staging_dir
    /\ log[Len(log)][1] = "CRITICAL"

\* how many times sign-file has been run
SignRuns == Cardinality({i \in 1..Len(tool_runs) : tool_runs[i] = "sign-file"})

\* the module files in the staging tree
StagedModules ==
    ((IF flat_dir.is_dir THEN flat_dir.files ELSE {}) \cup mod_root) \cap Names

\* the copy loop of build_dlkm_image is over
CopyOver == pc \notin {"start", "kernel", "staging", "copy"}

\* C14: with signing enabled every module in the staging tree has been signed,
\* by a sign-file run made before depmod and before mkfs.erofs; the build has
\* aborted when sign-file or a key file was absent at the first module to
\* sign and when a sign-file run failed; without signing enabled sign-file
\* is never run.
C14_SignedBeforePackaging ==
    fn = "dlkm" =>
        /\ (sign_modules /\ CopyOver /\ pc # "aborted") =>
              /\ signing_files
              /\ StagedModules \subseteq signed
              /\ SignRuns = modules_copied
        /\ (sign_modules /\ CopyOver /\ ~signing_files) =>
              pc = "aborted" /\ SignRuns = 0
        /\ (sign_modules /\ SignRuns # modules_copied) => pc = "aborted"
        /\ \A i, j \in 1..Len(tool_runs) :
              (tool_runs[j] = "sign-file" /\ i < j) => tool_runs[i] = "sign-file"
        /\ ~sign_modules => (SignRuns = 0 /\ signed = {})

\* C14 witness: an image built from two modules, both signed, next to a
\* manifest entry that was not found
C14_Witness ==
    /\ fn = "dlkm" /\ sign_modules /\ pc = "done"
    /\ Cardinality(signed) = 2
    /\ SignRuns = 2
    /\ Ran("mkfs.erofs")

\* C16 as stated: when a packaging step has ended, its artifact file exists
\* if it ended normally and does not exist if it failed.
C16_ArtifactIffSuccess ==
    (fn \in {"rd", "dlkm"} /\ Ended) => (artifact <=> pc = "done")

\* C19 as stated: once modules.load is written, every name it lists is the
\* name of a file in the staging tree's module directory.
C19_LoadedModulesStaged ==
    (fn \in {"rd", "dlkm"} /\ load_file.is_file) =>
        \A i \in 1..Len(load_file.lines) :
            LET line == load_file.lines[i]
            IN  SubSeq(line, 1, Len(line) - 1) \in mod_root

\* C20 as stated: with no avbtool binary, sign_partition_image runs no
\* command and reports the missing tool from its check of lines 792-802.
C20_NoCommandWithoutAvbtool ==
    (fn = "sign" /\ ~avbtool_exists) =>
        /\ ~Ran("avbtool")
        /\ avb_cmd = NoCmd
        /\ pc \notin {"size", "run", "done"}

\* a call that did not complete its work: it ended in sys.exit, or a module
\* of its manifest could not be resolved
Failed(c) == c.outcome \in {"exit", "unresolved"}

SuccessLogged ==
    \E i \in 1..Len(log) : log[i][2] = "Android kernel build completed successfully"

\* C15 as stated: after a call of main that failed no further call is made,
\* the process ends with a failure status and the success message is never
\* logged.
C15_FailureStopsRun ==
    fn = "main" =>
        \A i \in 1..Len(calls) :
            Failed(calls[i]) =>
                /\ i = Len(calls)
                /\ exit_status = Bound(1)
                /\ ~SuccessLogged

IsSign(c) == c.callee = "sign_partition_image"

\* the build calls main has to make for the flags it was given
RequestedBuilds ==
    {<<"build_kernel", "">>}
        \cup (IF args.create_dtbo_images \/ args.build_vendor_boot_image
              THEN {<<"build_dtbo_images", "">>} ELSE {})
        \cup (IF args.create_boot_image THEN {<<"build_boot_image", "">>} ELSE {})
        \cup (IF args.build_vendor_ramdisk_dlkm \/ args.build_vendor_boot_image
              THEN {<<"mk_vendor_rd_dlkm", "">>} ELSE {})
        \cup (IF args.build_vendor_boot_image
              THEN {<<"build_vendorboot_image", "">>} ELSE {})
        \cup (IF args.build_dlkm_image
              THEN {<<"build_dlkm_image", "system_dlkm">>,
                    <<"build_dlkm_image", "vendor_dlkm">>}
              ELSE {})

\* C17: in a run of main every call of sign_partition_image comes after all
\* requested build calls have returned, and after the first such call every
\* later call is a call of sign_partition_image.
C17_SigningLast ==
    fn = "main" =>
        \A j \in 1..Len(calls) :
            IsSign(calls[j]) =>
                /\ \A k \in j..Len(calls) : IsSign(calls[k])
                /\ \A b \in RequestedBuilds :
                     \E i \in 1..(j - 1) :
                        /\ calls[i].callee = b[1] /\ calls[i].arg = b[2]
                        /\ calls[i].outcome # "exit"

\* C17 witness: two images signed after the boot image and both dlkm images
\* were built
C17_Witness ==
    /\ fn = "main"
    /\ args.create_boot_image /\ args.build_dlkm_image
    /\ Cardinality({j \in 1..Len(calls) : IsSign(calls[j])}) = 2
    /\ \E i \in 1..Len(calls) : calls[i].callee = "build_dlkm_image"

\* the positions in calls of the calls of a function that returned normally
Built(callee) ==
    {i \in 1..Len(calls) : calls[i].callee = callee /\ calls[i].outcome = "done"}

\* C18: when main calls build_vendorboot_image, build_dtbo_images and
\* mk_vendor_rd_dlkm have both returned normally earlier in the run, and
\* mk_vendor_rd_dlkm is called exactly once in the run.
C18_VendorBootAfterParts ==
    fn = "main" =>
        \A j \in 1..Len(calls) :
            calls[j].callee = "build_vendorboot_image" =>
                /\ \E i \in Built("build_dtbo_images") : i < j
                /\ \E i \in Built("mk_vendor_rd_dlkm") : i < j
                /\ Cardinality({i \in 1..Len(calls) :
                                  calls[i].callee = "mk_vendor_rd_dlkm"}) = 1

\* C18 witness: the run has ended after composing vendor_boot.img, with
\* --build-vendor-ramdisk-dlkm given on the command line as well
C18_Witness ==
    /\ fn = "main" /\ pc = "exited"
    /\ \E j \in 1..Len(calls) : calls[j].callee = "build_vendorboot_image"
    /\ \A i \in 1..Len(log) : log[i][3] # <<"--build-vendor-ramdisk-dlkm">>

\* the positions in calls of the calls of sign_partition_image for an image
SignCalls(name) ==
    {j \in 1..Len(calls) : IsSign(calls[j]) /\ calls[j].arg = name}

\* the build call that writes an image
Producer(name) ==
    CASE name = "dtbo"        -> <<"build_dtbo_images", "">>
      [] name = "boot"        -> <<"build_boot_image", "">>
      [] name = "system_dlkm" -> <<"build_dlkm_image", "system_dlkm">>
      [] name = "vendor_dlkm" -> <<"build_dlkm_image", "vendor_dlkm">>
      [] name = "vendor_boot" -> <<"build_vendorboot_image", "">>

\* the image's build was asked for in this run: main has made its build call
BuildRequested(name) ==
    \E i \in 1..Len(calls) :
        calls[i].callee = Producer(name)[1] /\ calls[i].arg = Producer(name)[2]

====
